---- MODULE Spec2Model ----
(***************************************************************************)
(* The incremental agent-transcript parser of the chat front end           *)
(* (CustomAssistantMessage): parseAgentReasoning, the aggregation of a     *)
(* transcript into steps and a final answer, and the useEffect that        *)
(* re-derives the step list on every chunk and estimates which trailing    *)
(* step is still streaming.                                                *)
(*                                                                         *)
(* A transcript is a TLA+ string.  TLA+ strings are ASCII and cannot hold  *)
(* a backquote, so the few non-ASCII glyphs and the backquote the source   *)
(* tests for are written as one reserved ASCII character each (see the     *)
(* Glyph definitions); no other text of the model uses these characters.   *)
(***************************************************************************)
EXTENDS Integers, Sequences, FiniteSets, TLC

VARIABLES
    messageContent,        \* the cumulative transcript of the turn (useMessage().content)
    streamingSteps,        \* useState: the derived step list
    streamingFinalAnswer,  \* useState: the derived final answer
    lastContentLength,     \* useRef: transcript length at the last processed pass
    pieces,                \* how many pieces of text the producer has emitted so far
    streamEnded,           \* the transport has delivered the last chunk of the turn
    agentMode,             \* AssistantContent useState: agent mode switch
    selectedTools,         \* AssistantContent useState: ids of the enabled tools, in order
    showToolSelector,      \* ChatControls useState: the tool menu is open
    state,                 \* useFileTools useState: the FileToolsState record
    pendingReads,          \* paths of the readFile requests awaiting their response
    pendingLists           \* directories of the listFiles requests awaiting their response

chatVars == <<messageContent, streamingSteps, streamingFinalAnswer,
              lastContentLength, pieces, streamEnded>>

controlVars == <<agentMode, selectedTools, showToolSelector>>

fileVars == <<state, pendingReads, pendingLists>>

vars == <<chatVars, controlVars, fileVars>>

----------------------------------------------------------------------------
(* Initial values of the chat controls and of the file tools hook.          *)

\* The ids of AVAILABLE_TOOLS, in the order of the array.
AVAILABLE_TOOLS ==
    <<"web_search", "case_studies_search", "list_files",
      "read_file", "create_file", "edit_file">>

\* JavaScript null, for the fields that hold a string or null.
null == "null"

\* A FileItem, and the value standing for a null selectedFile.
FileItem(directory, filename) ==
    [name |-> filename, path |-> directory \o "/" \o filename]

NoFile == [name |-> null, path |-> null]

\* useState<FileToolsState>: the initial state of the hook (the loading and
\* error entries of the directories, creating and editing operations are
\* never written by the operations modelled here and are left out).
InitialFileToolsState ==
    [currentDirectory |-> null,
     directories |-> <<>>,
     files |-> <<>>,
     selectedFile |-> NoFile,
     fileContent |-> null,
     loading |-> [files |-> FALSE, fileContent |-> FALSE],
     errors |-> [files |-> null, fileContent |-> null]]

----------------------------------------------------------------------------
(* JavaScript string primitives, over TLA+ strings.                         *)

\* s[i - 1] for a position i of s, and "" outside s.
CharAt(s, i) == IF i >= 1 /\ i <= Len(s) THEN SubSeq(s, i, i) ELSE ""

Max(a, b) == IF a >= b THEN a ELSE b

Min(a, b) == IF a <= b THEN a ELSE b

\* String.prototype.startsWith
StartsWith(s, p) == Len(s) >= Len(p) /\ SubSeq(s, 1, Len(p)) = p

\* String.prototype.endsWith
EndsWith(s, p) == Len(s) >= Len(p) /\ SubSeq(s, Len(s) - Len(p) + 1, Len(s)) = p

\* String.prototype.includes
Includes(s, p) == \E i \in 1..(Len(s) - Len(p) + 1) : SubSeq(s, i, i + Len(p) - 1) = p

\* String.prototype.indexOf, counted from 1: the first position >= from at which
\* p occurs in s, and 0 when there is none.
IndexOf(s, p, from) ==
    LET last == Len(s) - Len(p) + 1
        at(i) == SubSeq(s, i, i + Len(p) - 1) = p
    IN  IF \E i \in from..last : at(i)
        THEN CHOOSE i \in from..last : at(i) /\ \A k \in from..(i - 1) : ~at(k)
        ELSE 0

\* The characters String.prototype.trim and the regex class \s remove
\* (those of them an ASCII transcript can hold).
IsSpace(c) == c \in {" ", "\n", "\t", "\r", "\f"}

\* String.prototype.trimStart
RECURSIVE TrimStart(_)
TrimStart(s) ==
    IF s # "" /\ IsSpace(CharAt(s, 1)) THEN TrimStart(SubSeq(s, 2, Len(s))) ELSE s

\* String.prototype.trimEnd
RECURSIVE TrimEnd(_)
TrimEnd(s) ==
    IF s # "" /\ IsSpace(CharAt(s, Len(s))) THEN TrimEnd(SubSeq(s, 1, Len(s) - 1)) ELSE s

\* String.prototype.trim
Trim(s) == TrimEnd(TrimStart(s))

\* String.prototype.replace(p, r) with a string pattern: the first occurrence.
ReplaceFirst(s, p, r) ==
    LET i == IndexOf(s, p, 1)
    IN  IF i = 0 THEN s
        ELSE SubSeq(s, 1, i - 1) \o r \o SubSeq(s, i + Len(p), Len(s))

\* String.prototype.split('\n')
RECURSIVE Split(_)
Split(s) ==
    LET i == IndexOf(s, "\n", 1)
    IN  IF i = 0 THEN <<s>>
        ELSE <<SubSeq(s, 1, i - 1)>> \o Split(SubSeq(s, i + 1, Len(s)))

\* Array.prototype.join('\n')
RECURSIVE Join(_)
Join(lines) ==
    IF Len(lines) = 0 THEN ""
    ELSE IF Len(lines) = 1 THEN lines[1]
    ELSE lines[1] \o "\n" \o Join(Tail(lines))

UpperCase == "ABCDEFGHIJKLMNOPQRSTUVWXYZ"

LowerCase == "abcdefghijklmnopqrstuvwxyz"

UpperCaseChars == {CharAt(UpperCase, i) : i \in 1..Len(UpperCase)}

LowerChar(c) ==
    IF c \in UpperCaseChars THEN CharAt(LowerCase, IndexOf(UpperCase, c, 1)) ELSE c

\* String.prototype.toLowerCase
RECURSIVE ToLowerCase(_)
ToLowerCase(s) ==
    IF Len(s) <= 1 THEN LowerChar(s)
    ELSE ToLowerCase(SubSeq(s, 1, Len(s) \div 2)) \o ToLowerCase(SubSeq(s, Len(s) \div 2 + 1, Len(s)))

\* The regex class \w
IsWordChar(c) ==
    Len(c) = 1 /\ (Includes(UpperCase, c) \/ Includes(LowerCase, c) \/ Includes("0123456789_", c))

----------------------------------------------------------------------------
(* The reserved characters standing for what a TLA+ string cannot hold.     *)

GlyphBackquote == "~"               \* the backquote of the json code fence
GlyphGlobe == "^"                   \* web search glyph (line 387)
GlyphMagnifier == "%"               \* case studies glyph (line 389)
GlyphMemo == "@"                    \* the glyph of lines 391, 397 and 435 (one string in the source)
GlyphPencil == "&"                  \* edit file glyph (line 393)
GlyphBook == GlyphMemo \o "="       \* read file glyph (line 395): the source's string extends that of line 391
GlyphBullet == "*"                  \* bullet (line 431)
GlyphCheck == "+"                   \* check mark glyph (line 433)
GlyphCycle == GlyphMagnifier \o "#" \* cycle glyph (line 434): the source's string extends that of line 389

----------------------------------------------------------------------------
(* looksLikeJson and the regular expressions of jsonPatterns.              *)

QuoteChar == "\""

\* The first position >= i of t that holds no white space (Len(t) + 1 if none): \s*
RECURSIVE SkipSpace(_, _)
SkipSpace(t, i) ==
    IF i <= Len(t) /\ IsSpace(CharAt(t, i)) THEN SkipSpace(t, i + 1) ELSE Min(i, Len(t) + 1)

\* The first quote of t after position k (0 if none): [^"]*"
NextQuote(t, k) == IndexOf(t, QuoteChar, k + 1)

\* "[^"]*" ending at the quote j, followed by the character c
QuotedThen(t, j, c) ==
    /\ CharAt(t, j) = QuoteChar
    /\ \E i \in 1..(j - 1) : CharAt(t, i) = QuoteChar
    /\ CharAt(t, j + 1) = c

\* A filter that knows the json code fence only.
looksLikeJsonFence(text) ==
    Includes(ToLowerCase(Trim(text)), GlyphBackquote \o GlyphBackquote \o GlyphBackquote \o "json")

\* jsonPatterns.some(pattern => pattern.test(cleanText)): the eleven patterns, in order.
looksLikeJson(text) ==
    LET t == Trim(text)
    IN  \* /^\s*[\{\[]/
        \/ CharAt(t, SkipSpace(t, 1)) \in {"{", "["}
        \* /[\}\]]\s*$/
        \/ CharAt(TrimEnd(t), Len(TrimEnd(t))) \in {"}", "]"}
        \* /"[^"]*":\s*"[^"]*"/
        \/ \E j \in 1..Len(t) :
            /\ QuotedThen(t, j, ":")
            /\ LET k == SkipSpace(t, j + 2)
               IN  CharAt(t, k) = QuoteChar /\ NextQuote(t, k) # 0
        \* /"[^"]*":\s*[\{\[\]]/
        \/ \E j \in 1..Len(t) :
            /\ QuotedThen(t, j, ":")
            /\ CharAt(t, SkipSpace(t, j + 2)) \in {"{", "[", "]"}
        \* /```json/i
        \/ Includes(ToLowerCase(t), GlyphBackquote \o GlyphBackquote \o GlyphBackquote \o "json")
        \* /"tool_name"/
        \/ Includes(t, "\"tool_name\"")
        \* /"tool_input"/
        \/ Includes(t, "\"tool_input\"")
        \* /"query"/
        \/ Includes(t, "\"query\"")
        \* /\{\s*"[^"]*":/
        \/ \E i \in 1..Len(t) :
            /\ CharAt(t, i) = "{"
            /\ LET k == SkipSpace(t, i + 1)
                   l == NextQuote(t, k)
               IN  CharAt(t, k) = QuoteChar /\ l # 0 /\ CharAt(t, l + 1) = ":"
        \* /"\w+":\s*"/
        \/ \E i \in 1..Len(t) :
            /\ CharAt(t, i) = QuoteChar
            /\ \E j \in (i + 2)..Len(t) :
                /\ CharAt(t, j) = QuoteChar
                /\ \A m \in (i + 1)..(j - 1) : IsWordChar(CharAt(t, m))
                /\ CharAt(t, j + 1) = ":"
                /\ CharAt(t, SkipSpace(t, j + 2)) = QuoteChar
        \* /"[^"]*",\s*"[^"]*":/
        \/ \E j \in 1..Len(t) :
            /\ QuotedThen(t, j, ",")
            /\ LET k == SkipSpace(t, j + 2)
                   l == NextQuote(t, k)
               IN  CharAt(t, k) = QuoteChar /\ l # 0 /\ CharAt(t, l + 1) = ":"

----------------------------------------------------------------------------
(* parseAgentReasoning: the aggregation of a transcript into steps and a    *)
(* final answer.  A step is a record; a step kind that has no tool_name or  *)
(* progressContent property holds "" there, and a step on which isStreaming *)
(* was never set holds FALSE (every reader of the property tests it for     *)
(* truthiness).  tool_input is '' on every step and is left out.            *)

Step(type, content, tool_name) ==
    [type |-> type, content |-> content, tool_name |-> tool_name,
     progressContent |-> "", isStreaming |-> FALSE]

\* currentStep = null
NoStep == Step("null", "", "")

\* Tool-name inference from the action text (lines 382-399).
inferToolName(actionText) ==
    LET lowerAction == ToLowerCase(actionText)
        has(w) == Includes(lowerAction, w)
    IN  IF has("search the web") \/ has("web search") \/ has(GlyphGlobe) THEN "web_search"
        ELSE IF has("case studies") \/ has("case study") \/ has(GlyphMagnifier)
            THEN "case_studies_search"
        ELSE IF (has("create") /\ has("file")) \/ has(GlyphMemo) THEN "create_file"
        ELSE IF (has("edit") /\ has("file")) \/ has(GlyphPencil) THEN "edit_file"
        ELSE IF (has("read") /\ has("file")) \/ has(GlyphBook) THEN "read_file"
        ELSE IF (has("list") /\ has("file")) \/ has(GlyphMemo) THEN "list_files"
        ELSE ""

\* A progress test that knows the bracketed counters only.
looksLikeProgressBracket(line) == StartsWith(line, "[")

\* The progress markers that route a continuation line of an action step to
\* progressContent (lines 427-438).
looksLikeProgress(line) ==
    \/ Includes(line, "Searching for:")
    \/ Includes(line, "Found")
    \/ Includes(line, "Scraping")
    \/ Includes(line, GlyphBullet)
    \/ Includes(line, "processing websites")
    \/ Includes(line, GlyphCheck)
    \/ Includes(line, GlyphCycle)
    \/ Includes(line, GlyphMemo)
    \/ StartsWith(line, "[")
    \/ Includes(line, "Performing web search for:")

\* The final-answer onset phrases (lines 415-417).
isFinalAnswerOnset(line) ==
    \/ StartsWith(line, "**Here's what I found:**")
    \/ StartsWith(line, "Here&apos;s what I found:")
    \/ StartsWith(line, "Based on")

\* The push without its guard: a null currentStep is pushed as well.
pushCurrentUnguarded(st) == Append(st.agentSteps, st.currentStep)

\* if (currentStep) agentSteps.push(currentStep)
pushCurrent(st) ==
    IF st.currentStep.type # "null" THEN Append(st.agentSteps, st.currentStep)
    ELSE st.agentSteps

\* The Action branch (lines 329-407): the JSON, exact-duplicate and same-tool
\* filters skip the line (continue); lastStep is the last step already pushed.
actionLine(st, line) ==
    LET actionText == Trim(ReplaceFirst(line, "Action:", ""))
        hasLast == Len(st.agentSteps) > 0
        lastStep == st.agentSteps[Len(st.agentSteps)]
        skipped == [st EXCEPT !.inAgentSection = TRUE]
    IN  IF looksLikeJson(actionText) THEN skipped
        ELSE IF hasLast /\ lastStep.type = "action"
                /\ Trim(lastStep.content) = Trim(actionText) THEN skipped
        ELSE IF hasLast /\ lastStep.type = "action"
                /\ LET lastContent == ToLowerCase(lastStep.content)
                       currentContent == ToLowerCase(actionText)
                   IN  \/ Includes(lastContent, "web search") /\ Includes(currentContent, "web search")
                       \/ Includes(lastContent, "case stud") /\ Includes(currentContent, "case stud")
            THEN skipped
        ELSE [skipped EXCEPT !.agentSteps = pushCurrent(st),
                             !.currentStep = Step("action", actionText, inferToolName(actionText))]

\* One iteration of the line loop (lines 319-446).
parseLine(st, rawLine) ==
    LET line == Trim(rawLine)
    IN  IF StartsWith(line, "Thought:") THEN
            [st EXCEPT !.inAgentSection = TRUE,
                       !.agentSteps = pushCurrent(st),
                       !.currentStep = Step("thought", Trim(ReplaceFirst(line, "Thought:", "")), "")]
        ELSE IF StartsWith(line, "Action:") THEN actionLine(st, line)
        ELSE IF StartsWith(line, "Observation:") THEN
            [st EXCEPT !.inAgentSection = TRUE,
                       !.agentSteps = pushCurrent(st),
                       !.currentStep = Step("observation", Trim(ReplaceFirst(line, "Observation:", "")), "")]
        ELSE IF isFinalAnswerOnset(line) THEN
            [st EXCEPT !.agentSteps = pushCurrent(st),
                       !.currentStep = NoStep,
                       !.inAgentSection = FALSE,
                       !.finalAnswer = @ \o line \o "\n"]
        ELSE IF st.currentStep.type # "null" /\ line # "" THEN
            IF st.currentStep.type = "action" /\ looksLikeProgress(line)
            THEN [st EXCEPT !.currentStep.progressContent = @ \o line \o "\n"]
            ELSE [st EXCEPT !.currentStep.content = @ \o " " \o line]
        ELSE IF ~st.inAgentSection /\ line # "" THEN
            [st EXCEPT !.finalAnswer = @ \o line \o "\n"]
        ELSE st

RECURSIVE parseLines(_, _, _)
parseLines(lines, i, st) ==
    IF i > Len(lines) THEN st ELSE parseLines(lines, i + 1, parseLine(st, lines[i]))

\* A cleanup that drops the steps of empty content only.
RECURSIVE cleanedStepsEmptyOnly(_)
cleanedStepsEmptyOnly(agentSteps) ==
    IF agentSteps = <<>> THEN <<>>
    ELSE LET step == Head(agentSteps)
         IN  (IF Trim(step.content) # "" THEN <<step>> ELSE <<>>)
                \o cleanedStepsEmptyOnly(Tail(agentSteps))

\* A cleanup that returns the kept steps newest first.
RECURSIVE cleanedStepsNewestFirst(_)
cleanedStepsNewestFirst(agentSteps) ==
    IF agentSteps = <<>> THEN <<>>
    ELSE LET step == Head(agentSteps)
             keep == Trim(step.content) # "" /\ ~looksLikeJson(step.content)
         IN  cleanedStepsNewestFirst(Tail(agentSteps)) \o (IF keep THEN <<step>> ELSE <<>>)

\* The cleanup filter (lines 473-482).
RECURSIVE cleanedSteps(_)
cleanedSteps(agentSteps) ==
    IF agentSteps = <<>> THEN <<>>
    ELSE LET step == Head(agentSteps)
             keep == Trim(step.content) # "" /\ ~looksLikeJson(step.content)
         IN  (IF keep THEN <<step>> ELSE <<>>) \o cleanedSteps(Tail(agentSteps))

\* The aggregation without the final trim of the answer buffer.
parseAgentReasoningUntrimmed(content) ==
    IF content = "" THEN [agentSteps |-> <<>>, finalAnswer |-> ""]
    ELSE LET start == [agentSteps |-> <<>>, finalAnswer |-> "",
                       currentStep |-> NoStep, inAgentSection |-> FALSE]
             end == parseLines(Split(content), 1, start)
         IN  [agentSteps |-> cleanedSteps(pushCurrent(end)),
              finalAnswer |-> end.finalAnswer]

parseAgentReasoning(content) ==
    IF content = "" THEN [agentSteps |-> <<>>, finalAnswer |-> ""]
    ELSE LET start == [agentSteps |-> <<>>, finalAnswer |-> "",
                       currentStep |-> NoStep, inAgentSection |-> FALSE]
             end == parseLines(Split(content), 1, start)
         IN  [agentSteps |-> cleanedSteps(pushCurrent(end)),
              finalAnswer |-> Trim(end.finalAnswer)]

----------------------------------------------------------------------------
(* The useEffect of CustomAssistantMessage (lines 495-616): the completion  *)
(* estimate made on every chunk.                                            *)

ThoughtFloor == 10        \* thoughtContent.length < 10
ActionFloor == 10         \* lastActionMatch[1].trim().length < 10
ObservationFloor == 20    \* observationContent.length < 20
CompleteFloor == 50       \* content.length < 50
LastFew == 5              \* lines.slice(-5)
NearBy == 1               \* Math.abs(...) <= 1

\* messageContent.match(/<marker>(.*)$/): the leftmost occurrence of the marker
\* after which no line terminator follows, and its capture group.
RECURSIVE tailMatchFrom(_, _, _)
tailMatchFrom(content, marker, from) ==
    LET i == IndexOf(content, marker, from)
        rest == SubSeq(content, i + Len(marker), Len(content))
    IN  IF i = 0 THEN [matched |-> FALSE, group |-> ""]
        ELSE IF ~Includes(rest, "\n") /\ ~Includes(rest, "\r")
            THEN [matched |-> TRUE, group |-> rest]
        ELSE tailMatchFrom(content, marker, i + 1)

tailMatch(content, marker) == tailMatchFrom(content, marker, 1)

hasIncompleteThought(content, newContent) ==
    LET justStartedThinking ==
            Includes(newContent, "Thought: ") /\ EndsWith(content, "Thought: ")
        lastThoughtMatch == tailMatch(content, "Thought: ")
    IN  \/ justStartedThinking
        \/ lastThoughtMatch.matched /\ Len(Trim(lastThoughtMatch.group)) < ThoughtFloor

hasIncompleteAction(content, newContent) ==
    LET lines == Split(content)
        lastFewLines == Join(SubSeq(lines, Max(1, Len(lines) - LastFew + 1), Len(lines)))
        lastActionMatch == tailMatch(content, "Action: ")
        justStartedAction ==
            /\ Includes(newContent, "Action: ")
            /\ \/ EndsWith(content, "Action: ")
               \/ lastActionMatch.matched /\ Len(Trim(lastActionMatch.group)) < ActionFloor
    IN  \/ justStartedAction
        \/ /\ Includes(lastFewLines, "Action:")
           /\ \E idx \in 1..Len(lines) :
                /\ Trim(lines[idx]) = "Action:"
                /\ (idx = Len(lines) \/ lines[idx + 1] = "" \/ Trim(lines[idx + 1]) = "")

hasIncompleteObservation(content, newContent) ==
    LET justStartedObservation ==
            Includes(newContent, "Observation: ") /\ EndsWith(content, "Observation: ")
        lastObservationMatch == tailMatch(content, "Observation: ")
    IN  \/ justStartedObservation
        \/ lastObservationMatch.matched
            /\ Len(Trim(lastObservationMatch.group)) < ObservationFloor

\* The synthesized placeholder step (lines 555-575).
incompleteStep(type) == [Step(type, "", "") EXCEPT !.isStreaming = TRUE]

\* streamingSteps.find(...): the first step of the previous list of the last
\* step's type within one position of it; FALSE when there is none.
wasStreaming(prevSteps, lastStep, lastIndex) ==
    LET near == {k \in 1..Len(prevSteps) :
                    /\ prevSteps[k].type = lastStep.type
                    /\ k - lastIndex <= NearBy /\ lastIndex - k <= NearBy}
    IN  near # {} /\ prevSteps[CHOOSE k \in near : \A m \in near : k <= m].isStreaming

\* The streaming flag given to the last aggregated step (lines 587-608).
lastStepStreaming(prevSteps, lastStep, lastIndex, finalAnswer, hasNewContent) ==
    IF lastStep.type \in {"thought", "observation"} THEN
        LET content == Trim(lastStep.content)
            looksIncomplete ==
                \/ Len(content) < CompleteFloor
                \/ ~EndsWith(content, ".") /\ ~EndsWith(content, "!") /\ ~EndsWith(content, "?")
        IN  IF Len(Trim(finalAnswer)) > 0 THEN FALSE
            ELSE wasStreaming(prevSteps, lastStep, lastIndex) \/ (looksIncomplete /\ hasNewContent)
    ELSE lastStep.isStreaming

\* The placeholder put in front of the aggregated steps instead of behind them.
prependPlaceholder(agentSteps, type) == <<incompleteStep(type)>> \o agentSteps

\* [...agentSteps, incompleteStep] (lines 560, 569, 576).
appendPlaceholder(agentSteps, type) == Append(agentSteps, incompleteStep(type))

\* updatedSteps with the flag set on its last element (lines 579-581, 610).
markLastStep(agentSteps, flag) == [agentSteps EXCEPT ![Len(agentSteps)].isStreaming = flag]

\* The step list the effect stores for a transcript longer than the last one seen.
estimateSteps(content, parsed, lastLength, prevSteps) ==
    LET agentSteps == parsed.agentSteps
        newContent == SubSeq(content, lastLength + 1, Len(content))
        n == Len(agentSteps)
    IN  IF hasIncompleteThought(content, newContent)
            THEN appendPlaceholder(agentSteps, "thought")
        ELSE IF hasIncompleteAction(content, newContent)
            THEN appendPlaceholder(agentSteps, "action")
        ELSE IF hasIncompleteObservation(content, newContent)
            THEN appendPlaceholder(agentSteps, "observation")
        ELSE IF n > 0
            THEN markLastStep(agentSteps,
                    lastStepStreaming(prevSteps, agentSteps[n], n, parsed.finalAnswer,
                                      Len(content) > lastLength))
        ELSE agentSteps

\* The effect without its length guard's strictness: it re-derives for a
\* transcript that has not grown.
EffectRederive(content) ==
    IF Len(content) >= lastContentLength
    THEN LET parsed == parseAgentReasoning(content)
         IN  /\ streamingSteps' = estimateSteps(content, parsed, lastContentLength, streamingSteps)
             /\ streamingFinalAnswer' = parsed.finalAnswer
             /\ lastContentLength' = Len(content)
    ELSE UNCHANGED <<streamingSteps, streamingFinalAnswer, lastContentLength>>

\* One run of the effect on the transcript `content` (lines 495-616).
Effect(content) ==
    IF Len(content) > lastContentLength
    THEN LET parsed == parseAgentReasoning(content)
         IN  /\ streamingSteps' = estimateSteps(content, parsed, lastContentLength, streamingSteps)
             /\ streamingFinalAnswer' = parsed.finalAnswer
             /\ lastContentLength' = Len(content)
    ELSE UNCHANGED <<streamingSteps, streamingFinalAnswer, lastContentLength>>

----------------------------------------------------------------------------------------------------------------------------------------
(* The transcript producer: the text grows by pieces, and a chunk carries   *)
(* one or more pieces.  A piece that opens a segment starts a new line.     *)

MaxPieces == 3

Piece(opens, text) == [opens |-> opens, text |-> text]

Sentence == "The search returned the pages I was looking for ok."

\* Bare markers, a whole action line, the final-answer onset, a blank line, and
\* running text: a short word, a word of ThoughtFloor characters, a sentence of
\* more than CompleteFloor characters.
StreamPieces ==
    {Piece(TRUE, "Thought: "), Piece(TRUE, "Action: "), Piece(TRUE, "Observation: "),
     Piece(TRUE, "Action: Search the web for cats"), Piece(TRUE, "Based on"),
     Piece(TRUE, ""),
     Piece(FALSE, "ok"), Piece(FALSE, "checks now"), Piece(FALSE, Sentence)}

Emit(content, piece) ==
    IF piece.opens /\ content # "" THEN content \o "\n" \o piece.text
    ELSE content \o piece.text

RECURSIVE EmitAll(_, _)
EmitAll(content, seq) ==
    IF seq = <<>> THEN content ELSE EmitAll(Emit(content, Head(seq)), Tail(seq))

Init ==
    /\ messageContent = ""
    /\ streamingSteps = <<>>
    /\ streamingFinalAnswer = ""
    /\ lastContentLength = 0
    /\ pieces = 0
    /\ streamEnded = FALSE
    /\ agentMode = FALSE
    /\ selectedTools = <<"web_search">>
    /\ showToolSelector = FALSE
    /\ state = InitialFileToolsState
    /\ pendingReads = <<>>
    /\ pendingLists = <<>>

\* A chunk of k pieces arrives: the message content grows and the effect runs.
Arrives(vocabulary) ==
    /\ ~streamEnded
    /\ \E k \in 1..(MaxPieces - pieces) : \E chunk \in [1..k -> vocabulary] :
        /\ messageContent' = EmitAll(messageContent, chunk)
        /\ pieces' = pieces + k
        /\ Effect(EmitAll(messageContent, chunk))
    /\ UNCHANGED <<streamEnded, controlVars, fileVars>>

ChunkArrives == Arrives(StreamPieces)

\* A producer that emits whole lines: steps of each kind, a leaked tool
\* payload as an Action line and as a line of its own, a final-answer onset,
\* plain prose and a blank line.
LinePieces ==
    {Piece(TRUE, "Thought: Let me search."),
     Piece(TRUE, "Action: Search the web for cats"),
     Piece(TRUE, "Action: {\"tool_name\": \"x\", \"tool_input\": {}}"),
     Piece(TRUE, "Observation: Gold is $2000/oz."),
     Piece(TRUE, "Based on my research, gold is currently $2000/oz."),
     Piece(TRUE, "Hello, how can I help?"),
     Piece(TRUE, "{\"query\": \"cats\"}"),
     Piece(TRUE, "")}

LinesArrive == Arrives(LinePieces)

\* The effect runs again with the transcript unchanged: streamingSteps is one of
\* its dependencies, so every pass that stores a new list re-triggers it.
EffectRerun ==
    /\ Effect(messageContent)
    /\ UNCHANGED <<messageContent, pieces, streamEnded, controlVars, fileVars>>

\* The transport closes the stream: no handler of the component observes it.
EndOfTurn ==
    /\ ~streamEnded
    /\ streamEnded' = TRUE
    /\ UNCHANGED <<messageContent, streamingSteps, streamingFinalAnswer,
                   lastContentLength, pieces, controlVars, fileVars>>

Next == ChunkArrives \/ EffectRerun \/ EndOfTurn

Spec == Init /\ [][Next]_vars

NextLines == LinesArrive \/ EffectRerun \/ EndOfTurn

SpecLines == Init /\ [][NextLines]_vars

----------------------------------------------------------------------------
(* The properties of the estimator, checked under Spec.                     *)

Streaming(steps) == {i \in 1..Len(steps) : steps[i].isStreaming}

\* A step without its streaming flag.
Core(step) == [step EXCEPT !.isStreaming = FALSE]

Cores(steps) == [i \in 1..Len(steps) |-> Core(steps[i])]

\* C1: after every pass, at most one step of the derived list is streaming,
\* and a streaming step is the last element of the list.
C1_AtMostOneStreaming ==
    /\ Cardinality(Streaming(streamingSteps)) <= 1
    /\ \A i \in Streaming(streamingSteps) : i = Len(streamingSteps)

\* A pass has left a streaming step behind completed ones.
C1_Witness ==
    /\ Len(streamingSteps) >= 2
    /\ Streaming(streamingSteps) = {Len(streamingSteps)}
    /\ streamingSteps[Len(streamingSteps)].content # ""

\* C2: whenever the derived final answer is non-empty, no step of the derived
\* list, placeholder included, is streaming.
C2_FinalAnswerCompletesAll ==
    streamingFinalAnswer # "" => Streaming(streamingSteps) = {}

\* C3: once the turn has ended, no step of the derived list is streaming.
C3_EndOfTurnCompletesAll ==
    streamEnded => Streaming(streamingSteps) = {}

\* C4: a step reported complete by one pass is not reported streaming by a
\* later pass (the step at the same position, of the same kind).
C4_NoFlap ==
    [][\A i \in 1..Len(streamingSteps) :
        (/\ i <= Len(streamingSteps')
         /\ streamingSteps'[i].type = streamingSteps[i].type
         /\ ~streamingSteps[i].isStreaming)
        => ~streamingSteps'[i].isStreaming]_vars

\* C5: an invocation of the effect whose transcript has not grown since the
\* last processed one leaves the step list, the final answer and the last-seen
\* length as they were.
C5_NoGrowthNoChange ==
    [][messageContent' = messageContent
        => UNCHANGED <<streamingSteps, streamingFinalAnswer, lastContentLength>>]_vars

\* A pass has stored a list with a placeholder, and the transcript has not grown since.
C5_Witness ==
    /\ messageContent # ""
    /\ lastContentLength = Len(messageContent)
    /\ \E i \in Streaming(streamingSteps) : streamingSteps[i].content = ""

\* The derivation of a transcript that arrives as one chunk.
InOneChunk(content) == estimateSteps(content, parseAgentReasoning(content), 0, <<>>)

\* C6: however the transcript was split into chunks, the steps (kinds, contents,
\* progressContent) and the final answer after the last chunk are those of the
\* transcript arriving as one chunk; only streaming flags may differ.
C6_ChunkingIrrelevant ==
    /\ Cores(streamingSteps) = Cores(InOneChunk(messageContent))
    /\ streamingFinalAnswer = parseAgentReasoning(messageContent).finalAnswer

----------------------------------------------------------------------------
(* The properties of the aggregation, checked under SpecLines.              *)

IsMarkerLine(line) ==
    \/ StartsWith(Trim(line), "Thought:")
    \/ StartsWith(Trim(line), "Action:")
    \/ StartsWith(Trim(line), "Observation:")

\* The lines without the one at position i.
Without(lines, i) == SubSeq(lines, 1, i - 1) \o SubSeq(lines, i + 1, Len(lines))

\* The non-empty trimmed lines, in order.
RECURSIVE NonEmptyTrimmed(_)
NonEmptyTrimmed(lines) ==
    IF lines = <<>> THEN <<>>
    ELSE (IF Trim(Head(lines)) = "" THEN <<>> ELSE <<Trim(Head(lines))>>)
            \o NonEmptyTrimmed(Tail(lines))

\* C7: when an Action line is immediately followed by an Action line with the
\* same trimmed text, the second line is discarded: the transcript aggregates
\* as it does without that line, the pair yielding one Action step.
C7_DuplicateActionDiscarded ==
    LET lines == Split(messageContent)
    IN  \A i \in 1..(Len(lines) - 1) :
            (StartsWith(Trim(lines[i]), "Action:") /\ Trim(lines[i + 1]) = Trim(lines[i]))
            => parseAgentReasoning(messageContent)
                    = parseAgentReasoning(Join(Without(lines, i + 1)))

\* The first line that is taken as a final-answer onset (0 if none).
OnsetLine(lines) ==
    LET onset(i) == ~IsMarkerLine(lines[i]) /\ isFinalAnswerOnset(Trim(lines[i]))
    IN  IF \E i \in 1..Len(lines) : onset(i)
        THEN CHOOSE i \in 1..Len(lines) : onset(i) /\ \A k \in 1..(i - 1) : ~onset(k)
        ELSE 0

\* C8: after a final-answer onset line, no later line opens a step and every
\* later non-empty line is final-answer content.
C8_OnsetEndsSteps ==
    LET lines == Split(messageContent)
        i == OnsetLine(lines)
        upTo == parseAgentReasoning(Join(SubSeq(lines, 1, i)))
        whole == parseAgentReasoning(messageContent)
    IN  i # 0 =>
            /\ whole.agentSteps = upTo.agentSteps
            /\ whole.finalAnswer
                = Join(<<upTo.finalAnswer>> \o NonEmptyTrimmed(SubSeq(lines, i + 1, Len(lines))))

\* The body of an Action line that is a raw tool payload.
IsToolPayload(body) ==
    /\ StartsWith(body, "{\"tool_name\":")
    /\ Includes(body, "\"tool_input\": {")
    /\ EndsWith(body, "}")

PayloadBodies(content) ==
    LET lines == Split(content)
    IN  {Trim(ReplaceFirst(Trim(lines[i]), "Action:", "")) :
            i \in {k \in 1..Len(lines) : StartsWith(Trim(lines[k]), "Action:")}}
        \ {""}

\* C9: no step of the derived list (aggregated steps and placeholder) holds
\* the raw tool payload of an Action line of the transcript as its content.
C9_JsonSuppressed ==
    \A body \in PayloadBodies(messageContent) :
        IsToolPayload(body) =>
            /\ \A k \in 1..Len(streamingSteps) : streamingSteps[k].content # body
            /\ \A k \in 1..Len(parseAgentReasoning(messageContent).agentSteps) :
                    parseAgentReasoning(messageContent).agentSteps[k].content # body

\* A transcript with a payload Action line has been derived into steps.
C9_Witness ==
    /\ \E body \in PayloadBodies(messageContent) : IsToolPayload(body)
    /\ lastContentLength = Len(messageContent)
    /\ Len(streamingSteps) >= 2

NoMarkerLine(content) ==
    \A i \in 1..Len(Split(content)) : ~IsMarkerLine(Split(content)[i])

NoOnsetLine(content) ==
    \A i \in 1..Len(Split(content)) : ~isFinalAnswerOnset(Trim(Split(content)[i]))

----------------------------------------------------------------------------
(* Scenarios and further properties of the estimator, checked under Spec.   *)

\* The marker text of a step kind, as the producer writes it.
MarkerOf(type) ==
    CASE type = "thought" -> "Thought: "
      [] type = "action" -> "Action: "
      [] type = "observation" -> "Observation: "

StepTypes == {"thought", "action", "observation"}

\* The last line of the transcript is the bare marker of the kind.
BareTail(content, type) ==
    LET lines == Split(content)
    IN  content # "" /\ lines[Len(lines)] = MarkerOf(type)

\* C11: when the transcript's last line is a bare marker, the derived list is
\* the aggregated steps, none streaming, followed by exactly one step of the
\* marker's kind with empty content and isStreaming set, whatever the chunking.
C11_PartialMarker ==
    \A type \in StepTypes :
        BareTail(messageContent, type) =>
            streamingSteps
                = Append(parseAgentReasoning(messageContent).agentSteps, incompleteStep(type))

----------------------------------------------------------------------------
(* A producer that streams one of a few whole transcripts, cut into chunks  *)
(* at any character.                                                        *)

PartialMarker == "Thought: I need to check the weather.\nAction: "

FullCycle ==
    "Thought: Let me search.\nAction: Searching the web for gold prices\n"
        \o "Observation: Gold is $2000/oz.\nBased on my research, gold is currently $2000/oz."

\* An action followed by progress lines and a line of narrative.
ProgressRouting == "Action: Search the web for cats\nFound 3 results\nand dogs\n[1] Cats"

\* The same tool announced twice in a row.
SameToolRepeat == "Action: Web search for cats\nAction: web search for dogs"

Scenarios == {PartialMarker, FullCycle, ProgressRouting, SameToolRepeat}

\* The places where a chunk may end: after any character.
CutPoints(t) == 1..Len(t)

\* The next chunk of a scenario transcript arrives and the effect runs.
ScenarioArrives ==
    /\ ~streamEnded
    /\ \E t \in Scenarios : \E n \in CutPoints(t) :
        /\ n > Len(messageContent)
        /\ SubSeq(t, 1, Len(messageContent)) = messageContent
        /\ messageContent' = SubSeq(t, 1, n)
        /\ Effect(SubSeq(t, 1, n))
    /\ UNCHANGED <<pieces, streamEnded, controlVars, fileVars>>

NextScenarios == ScenarioArrives \/ EffectRerun \/ EndOfTurn

SpecScenarios == Init /\ [][NextScenarios]_vars

\* C12: the full-cycle transcript yields exactly three steps, none streaming,
\* in the order Thought, Action, Observation, the Action step carrying the
\* tool name web_search, and the final answer is its last line.
C12_FullCycle ==
    messageContent = FullCycle =>
        /\ streamingSteps
            = <<Step("thought", "Let me search.", ""),
                Step("action", "Searching the web for gold prices", "web_search"),
                Step("observation", "Gold is $2000/oz.", "")>>
        /\ streamingFinalAnswer = "Based on my research, gold is currently $2000/oz."

\* The same without the tool name of the Action step.
C12_FullCycleButToolName ==
    messageContent = FullCycle =>
        /\ [i \in 1..Len(streamingSteps) |-> [streamingSteps[i] EXCEPT !.tool_name = ""]]
            = <<Step("thought", "Let me search.", ""),
                Step("action", "Searching the web for gold prices", ""),
                Step("observation", "Gold is $2000/oz.", "")>>
        /\ streamingFinalAnswer = "Based on my research, gold is currently $2000/oz."

----------------------------------------------------------------------------
(* The properties of the aggregation, checked under SpecScenarios.          *)

\* The state of the line loop after the first k lines.
StateAfter(lines, k) ==
    parseLines(SubSeq(lines, 1, k), 1,
               [agentSteps |-> <<>>, finalAnswer |-> "",
                currentStep |-> NoStep, inAgentSection |-> FALSE])

\* A trimmed line that neither opens a step nor starts the final answer.
IsContinuation(line) ==
    line # "" /\ ~IsMarkerLine(line) /\ ~isFinalAnswerOnset(line)

\* The progress markers: status phrases, bullets and glyphs anywhere in the
\* line, a bracket at its start.
ProgressPhrases ==
    {"Searching for:", "Found", "Scraping", "processing websites",
     "Performing web search for:", GlyphBullet, GlyphCheck, GlyphCycle, GlyphMemo}

MatchesProgressMarker(line) ==
    StartsWith(line, "[") \/ \E m \in ProgressPhrases : Includes(line, m)

\* C13: while an Action step is open, a continuation line that matches a
\* progress marker is appended to the step's progressContent and leaves its
\* content unchanged; one that matches none is appended to content after a
\* space and leaves progressContent unchanged.
C13_ProgressRouting ==
    LET lines == Split(messageContent)
    IN  \A i \in 1..Len(lines) :
            LET before == StateAfter(lines, i - 1)
                after == StateAfter(lines, i)
                line == Trim(lines[i])
            IN  (before.currentStep.type = "action" /\ IsContinuation(line)) =>
                    /\ after.agentSteps = before.agentSteps
                    /\ after.finalAnswer = before.finalAnswer
                    /\ IF MatchesProgressMarker(line)
                       THEN after.currentStep
                                = [before.currentStep EXCEPT !.progressContent = @ \o line \o "\n"]
                       ELSE after.currentStep
                                = [before.currentStep EXCEPT !.content = @ \o " " \o line]

\* The whole progress-routing transcript has been derived: the progress lines
\* are in progressContent, the narrative line is in content.
C13_Witness ==
    /\ messageContent = ProgressRouting
    /\ Len(streamingSteps) = 1
    /\ streamingSteps[1].type = "action"
    /\ streamingSteps[1].content = "Search the web for cats and dogs"
    /\ streamingSteps[1].progressContent = "Found 3 results\n[1] Cats\n"

----------------------------------------------------------------------------
(* Further temporal properties of the estimator, checked under Spec.        *)

\* C14: the content of a step that a pass reported with isStreaming unset is
\* the same in every later pass (the step at the same position, of the same
\* kind).
C14_ContentFrozen ==
    [][\A i \in 1..Len(streamingSteps) :
        (/\ ~streamingSteps[i].isStreaming
         /\ i <= Len(streamingSteps')
         /\ streamingSteps'[i].type = streamingSteps[i].type)
        => streamingSteps'[i].content = streamingSteps[i].content]_vars

----------------------------------------------------------------------------
(* The rendering boundary: what CustomAssistantMessage hands to AgentTrace, *)
(* and the status AgentTrace computes for each step.                        *)

\* The trace and the final answer rendered (part_006, lines 619-621): the
\* stored derivation if there is one, the static parse otherwise.
RenderedTrace ==
    IF Len(streamingSteps) > 0 \/ streamingFinalAnswer # "" THEN streamingSteps
    ELSE parseAgentReasoning(messageContent).agentSteps

RenderedFinalAnswer ==
    IF Len(streamingSteps) > 0 \/ streamingFinalAnswer # "" THEN streamingFinalAnswer
    ELSE parseAgentReasoning(messageContent).finalAnswer

\* hasFinalAnswer={!!finalAnswer}
hasFinalAnswer == RenderedFinalAnswer # ""

\* trace.reduce(...): thought chunks are merged into the thought before them.
RECURSIVE aggregatedTraceFrom(_, _)
aggregatedTraceFrom(acc, trace) ==
    IF trace = <<>> THEN acc
    ELSE LET step == Head(trace)
             n == Len(acc)
         IN  IF step.type = "thought_chunk"
             THEN IF n > 0 /\ acc[n].type = "thought"
                  THEN aggregatedTraceFrom([acc EXCEPT ![n].content = @ \o step.content],
                                           Tail(trace))
                  ELSE aggregatedTraceFrom(Append(acc, [step EXCEPT !.type = "thought"]),
                                           Tail(trace))
             ELSE aggregatedTraceFrom(Append(acc, step), Tail(trace))

aggregatedTrace(trace) == aggregatedTraceFrom(<<>>, trace)

SubstantialLength == 50   \* content.length > 50

\* An error status that follows the streaming flag.
errorStatusByFlag(step) == IF step.isStreaming THEN "running" ELSE "error"

\* case "error": return "error"
errorStatus(step) == "error"

\* getStepStatus(step, index) of AgentTrace, index counted from 1.
getStepStatus(trace, index, finalAnswerSeen) ==
    LET steps == aggregatedTrace(trace)
        step == steps[index]
        isLastStep == index = Len(steps)
        later(type) == \E k \in (index + 1)..Len(steps) : steps[k].type = type
    IN  CASE step.type = "thought" ->
                IF step.isStreaming THEN "running"
                ELSE IF ~isLastStep THEN "completed"
                ELSE IF finalAnswerSeen THEN "completed"
                ELSE LET content == Trim(step.content)
                         hasSubstantialContent == Len(content) > SubstantialLength
                         endsWithPunctuation ==
                            CharAt(content, Len(content)) \in {".", "!", "?"}
                     IN  IF hasSubstantialContent /\ endsWithPunctuation
                         THEN "completed" ELSE "running"
          [] step.type = "action" ->
                IF later("observation") \/ later("thought") THEN "completed" ELSE "running"
          [] step.type = "observation" -> "completed"
          [] step.type = "error" -> errorStatus(step)
          [] OTHER -> "pending"

\* C15: every step of the rendered trace whose isStreaming flag is set, of
\* kind thought, action or observation, has the display status running.
C15_StreamingShownRunning ==
    \A i \in 1..Len(aggregatedTrace(RenderedTrace)) :
        (/\ aggregatedTrace(RenderedTrace)[i].isStreaming
         /\ aggregatedTrace(RenderedTrace)[i].type \in StepTypes)
        => getStepStatus(RenderedTrace, i, hasFinalAnswer) = "running"

----------------------------------------------------------------------------
(* Totality of the derivation, checked under Spec.                          *)

\* The list handed to the cleanup filter: every step pushed by the line loop
\* and by the push after it (line 448); the empty transcript returns before
\* the loop (line 311).
PushedSteps(content) ==
    IF content = "" THEN <<>>
    ELSE pushCurrent(StateAfter(Split(content), Len(Split(content))))

\* C16: for every transcript the derivation returns a step list and a final
\* answer without raising (no null reaches the cleanup filter, which reads
\* step.content; every returned step is a step of a known kind), and for the
\* empty transcript both the static parse and the rendered derivation are an
\* empty step list and an empty final answer.
C16_NeverFails ==
    LET result == parseAgentReasoning(messageContent)
        pushed == PushedSteps(messageContent)
    IN  /\ \A k \in 1..Len(pushed) : pushed[k].type \in StepTypes
        /\ \A k \in 1..Len(result.agentSteps) : result.agentSteps[k].type \in StepTypes
        /\ \A k \in 1..Len(streamingSteps) : streamingSteps[k].type \in StepTypes
        /\ messageContent = "" =>
            /\ result = [agentSteps |-> <<>>, finalAnswer |-> ""]
            /\ RenderedTrace = <<>>
            /\ RenderedFinalAnswer = ""

\* A transcript of malformed markers only has been derived: steps were pushed,
\* none survives, and the result is the empty list and the empty answer.
C16_Witness ==
    /\ messageContent # ""
    /\ lastContentLength = Len(messageContent)
    /\ Len(PushedSteps(messageContent)) >= 2
    /\ parseAgentReasoning(messageContent) = [agentSteps |-> <<>>, finalAnswer |-> ""]

----------------------------------------------------------------------------
(* Error steps.  The aggregation opens steps for the three markers only, so *)
(* an error step reaches the estimator and the status computation only as   *)
(* an element of a list given to them; the properties below put one there.  *)

ErrorStep(flag) == [Step("error", "The tool failed.", "") EXCEPT !.isStreaming = flag]

\* The list with the step put at position p.
InsertAt(steps, p, step) ==
    SubSeq(steps, 1, p - 1) \o <<step>> \o SubSeq(steps, p, Len(steps))

\* C17: an error step has the display status error at every position of the
\* rendered trace, whatever its flag, the other steps and the final answer;
\* the estimator sets isStreaming on no error step, whatever the transcript
\* tail and the part of it that is new; no derived list holds a streaming
\* error step.
C17_ErrorStepComplete ==
    /\ \A p \in 1..(Len(RenderedTrace) + 1) : \A flag \in BOOLEAN :
            getStepStatus(InsertAt(RenderedTrace, p, ErrorStep(flag)), p, hasFinalAnswer)
                = "error"
    /\ LET parsed == parseAgentReasoning(messageContent)
           withError == [parsed EXCEPT !.agentSteps = Append(@, ErrorStep(FALSE))]
       IN  \A lastLength \in {0, Max(0, Len(messageContent) - 1)} :
             LET estimate == estimateSteps(messageContent, withError, lastLength, streamingSteps)
             IN  \A k \in 1..Len(estimate) :
                    estimate[k].type = "error" => ~estimate[k].isStreaming
    /\ \A k \in 1..Len(streamingSteps) :
            streamingSteps[k].type = "error" => ~streamingSteps[k].isStreaming

\* A trace whose last step is a streaming thought, with no final answer: an
\* error step put in front of it shows error while the thought shows running.
C17_Witness ==
    /\ Len(RenderedTrace) >= 2
    /\ ~hasFinalAnswer
    /\ RenderedTrace[Len(RenderedTrace)].type = "thought"
    /\ RenderedTrace[Len(RenderedTrace)].isStreaming
    /\ LET n == Len(RenderedTrace)
           trace == InsertAt(RenderedTrace, n, ErrorStep(TRUE))
       IN  /\ getStepStatus(trace, n, hasFinalAnswer) = "error"
           /\ getStepStatus(trace, n + 1, hasFinalAnswer) = "running"

----------------------------------------------------------------------------
(* The rules of the estimate for the trailing step, checked under Spec.     *)

\* The completion condition: trimmed content longer than the floor, ending in
\* sentence-final punctuation.
LooksComplete(step) ==
    /\ Len(Trim(step.content)) > CompleteFloor
    /\ CharAt(Trim(step.content), Len(Trim(step.content))) \in {".", "!", "?"}

\* C18: a trailing step that the previous pass marked streaming, placeholder
\* included, and that is still the trailing step (same position, same kind)
\* stays streaming unless the final answer is non-empty or its content meets
\* the completion condition.
C18_StickyStreaming ==
    [][LET n == Len(streamingSteps)
       IN  (/\ n > 0
            /\ streamingSteps[n].isStreaming
            /\ Len(streamingSteps') = n
            /\ streamingSteps'[n].type = streamingSteps[n].type
            /\ streamingFinalAnswer' = ""
            /\ ~LooksComplete(streamingSteps'[n]))
           => streamingSteps'[n].isStreaming]_vars

\* No line-final bare marker at the end of the transcript.
NoBareTail(content) == \A type \in StepTypes : ~BareTail(content, type)

\* C19: with an empty final answer and no bare marker at the tail, the
\* trailing step of the derived list is reported complete if its content
\* meets the completion condition, whatever the previous pass said of it, and
\* streaming otherwise.
C19_LooksCompleteRule ==
    LET n == Len(streamingSteps)
    IN  (/\ n > 0
         /\ streamingFinalAnswer = ""
         /\ NoBareTail(messageContent))
        => (streamingSteps[n].isStreaming <=> ~LooksComplete(streamingSteps[n]))

\* A trailing thought that meets the completion condition is reported
\* streaming because the pass before reported a streaming thought.
C19_StickyOverridesComplete ==
    LET n == Len(streamingSteps)
    IN  /\ n > 0
        /\ streamingFinalAnswer = ""
        /\ NoBareTail(messageContent)
        /\ streamingSteps[n].type = "thought"
        /\ LooksComplete(streamingSteps[n])
        /\ streamingSteps[n].isStreaming

\* The length floor below which a step of the kind counts as just started.
FloorOf(type) ==
    CASE type = "thought" -> ThoughtFloor
      [] type = "action" -> ActionFloor
      [] type = "observation" -> ObservationFloor

\* C20: with an empty final answer and no bare marker at the tail, when the
\* content of the last aggregated step is shorter than the floor of its kind,
\* the derived list is the aggregated list with that step marked streaming.
C20_ShortTrailingStreams ==
    LET agentSteps == parseAgentReasoning(messageContent).agentSteps
        n == Len(agentSteps)
    IN  (/\ n > 0
         /\ streamingFinalAnswer = ""
         /\ NoBareTail(messageContent)
         /\ Len(agentSteps[n].content) < FloorOf(agentSteps[n].type))
        => streamingSteps = markLastStep(agentSteps, TRUE)

----------------------------------------------------------------------------
(* Further properties of the rendering boundary, checked under Spec.        *)

\* C21: no step of the rendered trace other than its last has the display
\* status running, whatever its kind and whatever steps follow it.
C21_NonLastNotRunning ==
    \A i \in 1..(Len(aggregatedTrace(RenderedTrace)) - 1) :
        getStepStatus(RenderedTrace, i, hasFinalAnswer) # "running"

\* C22: when the rendered final answer is non-empty, no step of the rendered
\* trace has the display status running, a trailing action included.
C22_FinalAnswerNoneRunning ==
    hasFinalAnswer =>
        \A i \in 1..Len(aggregatedTrace(RenderedTrace)) :
            getStepStatus(RenderedTrace, i, hasFinalAnswer) # "running"

\* A final answer is rendered and the trailing action, complete in the derived
\* list, is displayed as running.
C22_TrailingActionRunning ==
    LET n == Len(RenderedTrace)
    IN  /\ hasFinalAnswer
        /\ n > 0
        /\ RenderedTrace[n].type = "action"
        /\ ~RenderedTrace[n].isStreaming
        /\ getStepStatus(RenderedTrace, n, hasFinalAnswer) = "running"

----------------------------------------------------------------------------
(* Further properties of the aggregation, checked under SpecScenarios.      *)

\* The text of an Action line, lower-cased.
ActionTextOf(line) == ToLowerCase(Trim(ReplaceFirst(Trim(line), "Action:", "")))

\* Two action texts of one tool family.
SameToolFamily(a, b) ==
    \/ Includes(a, "web search") /\ Includes(b, "web search")
    \/ Includes(a, "case stud") /\ Includes(b, "case stud")

\* C23: when an Action line immediately follows an Action line of the same
\* tool family, the second line is discarded: the transcript aggregates as it
\* does without that line, the two lines yielding one Action step.
C23_SameToolRepeatDiscarded ==
    LET lines == Split(messageContent)
    IN  \A i \in 1..(Len(lines) - 1) :
            (/\ StartsWith(Trim(lines[i]), "Action:")
             /\ StartsWith(Trim(lines[i + 1]), "Action:")
             /\ SameToolFamily(ActionTextOf(lines[i]), ActionTextOf(lines[i + 1])))
            => parseAgentReasoning(messageContent)
                    = parseAgentReasoning(Join(Without(lines, i + 1)))

----------------------------------------------------------------------------
(* The derived list over a growing transcript, checked under Spec.          *)

\* C24: a step that one pass reports with isStreaming unset at a position
\* other than the last is, after every later pass, still at that position
\* with the same kind.
C24_AppendMergeOnly ==
    [][\A i \in 1..(Len(streamingSteps) - 1) :
        ~streamingSteps[i].isStreaming
        => /\ i <= Len(streamingSteps')
           /\ streamingSteps'[i].type = streamingSteps[i].type]_vars

\* A list of three steps, the first two of different kinds and reported
\* complete, stored by a pass over a transcript of several lines.
C24_Witness ==
    /\ Len(streamingSteps) >= 3
    /\ ~streamingSteps[1].isStreaming /\ ~streamingSteps[2].isStreaming
    /\ streamingSteps[1].type # streamingSteps[2].type
    /\ Len(Split(messageContent)) >= 2
    /\ lastContentLength = Len(messageContent)

----------------------------------------------------------------------------
(* Further properties of the aggregation, checked under SpecLines.          *)

\* The structural indicators of a leaked payload: a bracket at either end, a
\* payload field name.
HasPayloadMark(text) ==
    LET t == Trim(text)
    IN  \/ CharAt(t, 1) \in {"{", "["}
        \/ CharAt(t, Len(t)) \in {"}", "]"}
        \/ Includes(t, "\"tool_name\"")
        \/ Includes(t, "\"tool_input\"")
        \/ Includes(t, "\"query\"")

\* The steps the cleanup keeps.
KeptByCleanup(step) == Trim(step.content) # "" /\ ~looksLikeJson(step.content)

\* C25: every step returned by the aggregation has non-empty trimmed content
\* that matches no JSON-leak pattern, and the returned list is the pushed
\* steps without those of empty or JSON-like content, of whatever kind, in
\* their order.
C25_CleanupInvariant ==
    LET result == parseAgentReasoning(messageContent).agentSteps
    IN  /\ \A k \in 1..Len(result) :
            /\ Trim(result[k].content) # ""
            /\ ~looksLikeJson(result[k].content)
            /\ ~HasPayloadMark(result[k].content)
        /\ result = SelectSeq(PushedSteps(messageContent), KeptByCleanup)

\* A thought or an observation whose content became JSON-like through a
\* continuation line was pushed and is not in the result, which has other steps.
C25_Witness ==
    LET result == parseAgentReasoning(messageContent).agentSteps
        pushed == PushedSteps(messageContent)
    IN  /\ lastContentLength = Len(messageContent)
        /\ Len(result) >= 1
        /\ \E k \in 1..Len(pushed) :
            /\ pushed[k].type \in {"thought", "observation"}
            /\ Includes(pushed[k].content, "{\"query\"")
            /\ ~StartsWith(pushed[k].content, "{")
            /\ \A m \in 1..Len(result) : result[m].content # pushed[k].content

----------------------------------------------------------------------------
(* Placeholders and segments, checked under Spec.                           *)

\* The number of lines of the transcript that begin with a step marker.
MarkerLines(content) ==
    Cardinality({i \in 1..Len(Split(content)) : IsMarkerLine(Split(content)[i])})

\* C26: the derived list holds no more steps than the transcript has marker
\* lines: no segment is shown both as a step and as an empty placeholder.
C26_StepsWithinMarkerLines ==
    Len(streamingSteps) <= MarkerLines(messageContent)

----------------------------------------------------------------------------
(* Text conservation, checked under SpecLines.                              *)

\* C27: every non-empty line that is neither a marker line nor a final-answer
\* onset is appended to the open step's content or progressContent, or to the
\* final-answer buffer, whatever marker lines came before it.
C27_NoTextLost ==
    LET lines == Split(messageContent)
    IN  \A i \in 1..Len(lines) :
            LET before == StateAfter(lines, i - 1)
                after == StateAfter(lines, i)
                line == Trim(lines[i])
            IN  IsContinuation(line) =>
                    \/ after.currentStep
                        = [before.currentStep EXCEPT !.content = @ \o " " \o line]
                    \/ after.currentStep
                        = [before.currentStep EXCEPT !.progressContent = @ \o line \o "\n"]
                    \/ after.finalAnswer = before.finalAnswer \o line \o "\n"

----------------------------------------------------------------------------
(* The sticky-streaming memory, checked under Spec.                         *)

\* The number of lines of a transcript (none for the empty one).
LineCount(content) == IF content = "" THEN 0 ELSE Len(Split(content))

\* The line that opened the step open at the end of the transcript: the last
\* marker line that the aggregation did not skip (0 if none).
OpeningLine(lines) ==
    LET opens(i) ==
            /\ IsMarkerLine(lines[i])
            /\ StateAfter(lines, i).currentStep # StateAfter(lines, i - 1).currentStep
                \/ StateAfter(lines, i).agentSteps # StateAfter(lines, i - 1).agentSteps
    IN  IF \E i \in 1..Len(lines) : opens(i)
        THEN CHOOSE i \in 1..Len(lines) : opens(i) /\ \A k \in (i + 1)..Len(lines) : ~opens(k)
        ELSE 0

\* The trailing aggregated step of the transcript was opened by a line that
\* the shorter transcript did not have.
NewlyOpenedTrailing(shorter, content) ==
    LET lines == Split(content)
        end == StateAfter(lines, Len(lines))
    IN  /\ content # ""
        /\ end.currentStep.type # "null"
        /\ KeptByCleanup(end.currentStep)
        /\ OpeningLine(lines) > LineCount(shorter)

\* C28: when the trailing step of a pass was opened by text of the new chunk,
\* the list stored is the one the pass stores with no memory of earlier
\* passes: no flag of an earlier step is carried over to it.
C28_MemoryOfSameStep ==
    [][NewlyOpenedTrailing(messageContent, messageContent')
        => streamingSteps'
            = estimateSteps(messageContent', parseAgentReasoning(messageContent'),
                            lastContentLength, <<>>)]_vars

----------------------------------------------------------------------------
(* ChatControls: the agent-mode switch and the tool menu.                   *)

\* selectedTools.includes(toolId)
includesTool(tools, toolId) == \E i \in DOMAIN tools : tools[i] = toolId

\* The menu button's setShowToolSelector(!showToolSelector); the backdrop,
\* rendered while the menu is open, closes it with the same effect.
ToggleToolSelector ==
    /\ showToolSelector' = ~showToolSelector
    /\ UNCHANGED <<agentMode, selectedTools, chatVars, fileVars>>

\* A click on a row of the open menu.
toggleTool(toolId) ==
    /\ showToolSelector
    /\ selectedTools' =
        IF includesTool(selectedTools, toolId)
        THEN SelectSeq(selectedTools, LAMBDA id : id # toolId)
        ELSE IF agentMode THEN Append(selectedTools, toolId)
        ELSE <<toolId>>
    /\ UNCHANGED <<agentMode, showToolSelector, chatVars, fileVars>>

\* The "All" button, rendered in the open menu in agent mode only.
selectAllTools ==
    /\ showToolSelector
    /\ agentMode
    /\ selectedTools' = AVAILABLE_TOOLS
    /\ UNCHANGED <<agentMode, showToolSelector, chatVars, fileVars>>

\* The "None" button of the open menu.
clearAllTools ==
    /\ showToolSelector
    /\ selectedTools' = <<>>
    /\ UNCHANGED <<agentMode, showToolSelector, chatVars, fileVars>>

\* The switch: onCheckedChange={onAgentModeChange}, wired to setAgentMode.
onAgentModeChange(enabled) ==
    /\ agentMode' = enabled
    /\ UNCHANGED <<selectedTools, showToolSelector, chatVars, fileVars>>

SwitchAgentMode == onAgentModeChange(~agentMode)

ToggleSomeTool ==
    \E i \in DOMAIN AVAILABLE_TOOLS : toggleTool(AVAILABLE_TOOLS[i])

NextControls ==
    \/ ToggleToolSelector
    \/ ToggleSomeTool
    \/ selectAllTools
    \/ clearAllTools
    \/ SwitchAgentMode

SpecControls == Init /\ [][NextControls]_vars

\* C29: in standard (non-agent) mode at most one tool is selected: whenever
\* agentMode is false the selectedTools list has length at most 1.
C29_StandardModeOneTool == ~agentMode => Len(selectedTools) <= 1

----------------------------------------------------------------------------
(* FileToolsPanel over useFileTools: directory and file selection with the  *)
(* list and read requests in flight.  The hook also returns clearSelection, *)
(* which no component calls; creating and editing files are not modelled.   *)

\* The most requests of one kind awaiting their response at a time.
MaxInFlight == 2

\* What the backend serves: the directories of the configuration, the file
\* names of each directory and the content of each file.
ServedDirectories == <<"knowledge_base", "output">>

ServedFiles(directory) ==
    IF directory = "knowledge_base" THEN <<"notes.md", "faq.md">>
    ELSE <<"report.txt">>

ServedContent(filepath) == "contents of " \o filepath

\* files: response.files.map(filename => ({name, path: `${directory}/${filename}`}))
listedFiles(directory) ==
    [i \in DOMAIN ServedFiles(directory) |->
        FileItem(directory, ServedFiles(directory)[i])]

\* A request list without its i-th entry.
WithoutRequest(requests, i) ==
    SubSeq(requests, 1, i - 1) \o SubSeq(requests, i + 1, Len(requests))

\* The configuration loads and the effect copies its directories.
ConfigLoads ==
    /\ state.directories = <<>>
    /\ state' = [state EXCEPT !.directories = ServedDirectories]
    /\ UNCHANGED <<pendingReads, pendingLists, chatVars, controlVars>>

\* The state updaters of the hook.
setCurrentDirectory(prev, directory) ==
    [prev EXCEPT !.currentDirectory = directory,
                 !.selectedFile = NoFile,
                 !.fileContent = null]

selectFile(prev, file) == [prev EXCEPT !.selectedFile = file]

\* handleListFiles up to its await.
listFilesStarts(prev) ==
    [prev EXCEPT !.loading.files = TRUE, !.errors.files = null]

\* handleReadFile up to its await.
readFileStarts(prev) ==
    [prev EXCEPT !.loading.fileContent = TRUE, !.errors.fileContent = null]

\* handleReadFile after its await, on success.
readFileStored(prev, filepath) ==
    [prev EXCEPT !.fileContent = ServedContent(filepath),
                 !.loading.fileContent = FALSE]

\* The directory select changes (it is disabled while there are no
\* directories): setCurrentDirectory, then listFiles up to its await.
handleDirectoryChange(directory) ==
    /\ state.directories # <<>>
    /\ directory # state.currentDirectory
    /\ Len(pendingLists) < MaxInFlight
    /\ state' = listFilesStarts(setCurrentDirectory(state, directory))
    /\ pendingLists' = Append(pendingLists, directory)
    /\ UNCHANGED <<pendingReads, chatVars, controlVars>>

\* A listFiles response arrives.
ListFilesResponds ==
    \E i \in DOMAIN pendingLists :
        /\ state' = [state EXCEPT !.files = listedFiles(pendingLists[i]),
                                  !.currentDirectory = pendingLists[i],
                                  !.loading.files = FALSE]
        /\ pendingLists' = WithoutRequest(pendingLists, i)
        /\ UNCHANGED <<pendingReads, chatVars, controlVars>>

\* A listFiles request fails.
ListFilesFails ==
    \E i \in DOMAIN pendingLists :
        /\ state' = [state EXCEPT !.loading.files = FALSE,
                                  !.errors.files = "Failed to list files"]
        /\ pendingLists' = WithoutRequest(pendingLists, i)
        /\ UNCHANGED <<pendingReads, chatVars, controlVars>>

\* A click on a row of the file list (rendered while files is non-empty and
\* no listing is loading): selectFile, then readFile up to its await.
handleFileSelect(file) ==
    /\ ~state.loading.files
    /\ Len(pendingReads) < MaxInFlight
    /\ state' = readFileStarts(selectFile(state, file))
    /\ pendingReads' = Append(pendingReads, file.path)
    /\ UNCHANGED <<pendingLists, chatVars, controlVars>>

\* A readFile response arrives, in any order among the pending ones.
ReadFileResponds ==
    \E i \in DOMAIN pendingReads :
        /\ state' = readFileStored(state, pendingReads[i])
        /\ pendingReads' = WithoutRequest(pendingReads, i)
        /\ UNCHANGED <<pendingLists, chatVars, controlVars>>

\* A readFile request fails.
ReadFileFails ==
    \E i \in DOMAIN pendingReads :
        /\ state' = [state EXCEPT !.loading.fileContent = FALSE,
                                  !.errors.fileContent = "Failed to read file"]
        /\ pendingReads' = WithoutRequest(pendingReads, i)
        /\ UNCHANGED <<pendingLists, chatVars, controlVars>>

DirectoryChanges ==
    \E i \in DOMAIN state.directories : handleDirectoryChange(state.directories[i])

FileSelected ==
    \E i \in DOMAIN state.files : handleFileSelect(state.files[i])

NextFileTools ==
    \/ ConfigLoads
    \/ DirectoryChanges
    \/ ListFilesResponds
    \/ ListFilesFails
    \/ FileSelected
    \/ ReadFileResponds
    \/ ReadFileFails

SpecFileTools == Init /\ [][NextFileTools]_vars

\* C30: whenever no read request is in flight, a non-null fileContent is the
\* content of the currently selected file: a late response for a previously
\* selected file never leaves fileContent set while selectedFile is null or
\* is a different file.
C30_ContentOfSelectedFile ==
    (pendingReads = <<>> /\ state.fileContent # null)
        => /\ state.selectedFile # NoFile
           /\ state.fileContent = ServedContent(state.selectedFile.path)

====
